---- MODULE Spec2Model ----
(***************************************************************************)
(* AeroMap: the PM2.5 estimation pipeline.                                 *)
(*   src/src/fetch_data.py              fetch_cpcb_and_weather_data        *)
(*   src/src/process_satellite_data.py  process_satellite_data             *)
(*   src/src/train_model.py             train_pm_model                     *)
(*   src/src/predict_and_map.py         generate_pm_map                    *)
(*   src/main_runner.py                 run_script, __main__               *)
(*                                                                         *)
(* Units.  Latitudes and longitudes are in tenths of a degree, timestamps  *)
(* in whole hours since 2024-01-01T00:00Z, so that every quantity of the   *)
(* code is an integer here and distances are compared exactly.  A missing  *)
(* value (NaN, NaT, pd.NA, an empty CSV field) is a negative number that   *)
(* no measurement takes.                                                   *)
(***************************************************************************)
EXTENDS Integers, Sequences, FiniteSets, TLC

VARIABLES
    \* ---- fetch_data.py
    fetchPc,            \* position of fetch_cpcb_and_weather_data
    openaq_results,     \* the 'results' list of the OpenAQ answer
    df_pm25,            \* deduplicated ground readings
    idx,                \* number of df_pm25 rows the weather loop has handled
    weather_data_list,  \* rows appended by the weather loop
    weatherCalls,       \* locations the weather API was called for, in order
    weatherFailed,      \* locations whose weather call ended in an except branch
    fetchLog,           \* diagnostics printed by the stage
    \* ---- the weather aligner taken alone
    alignIn,            \* (forecast series, reference timestamp)
    alignOut,           \* the row chosen for it
    \* ---- process_satellite_data.py
    fusionPc,           \* "idle", or how the last run ended: "returned" / "raised"
    fusionLog,          \* diagnostics printed by the last run
    all_aod_data,       \* the frames the last run appended, one per parsed file
    df_all_aod,         \* the satellite points the last run indexed
    df_attached,        \* the ground rows of the last run with their AOD column
    wroteMerged,        \* whether the last run wrote merged_data.csv
    runs,               \* number of runs so far
    prevRun,            \* the run before the last: <<>> or <<its record>>
    lastRun,            \* the last run: <<>> or <<its record>>
    now,                \* wall clock
    \* ---- the nearest-neighbour attachment taken alone
    nnIn,               \* <<>> or <<all_aod_data, ground rows>>
    nnOut,              \* <<>> or <<the result of the attachment>>
    \* ---- train_model.py
    trainPc,            \* position of train_pm_model
    trainLog,           \* diagnostics printed by the last run
    trainWrote,         \* whether the last run wrote the model and the report
    \* ---- predict_and_map.py
    predictPc,          \* position of generate_pm_map
    predictLog,         \* diagnostics printed by the last run
    predictWrote,       \* whether the last run wrote the map
    \* ---- main_runner.py
    runnerPc,           \* "idle", the stage being run, "done" or "exit1"
    runnerLog,          \* what the runner printed in its last run
    pipelineRuns,       \* number of times the runner was started
    \* ---- files
    cpcbCsv,            \* data/raw/cpcb_live_with_weather.csv
    rasterDir,          \* data/raw/INSAT_AOD/: whether it exists, and its listing
    mergedCsv,          \* data/processed/merged_data.csv
    modelPkl,           \* models/random_forest.pkl: the rows the model was fitted on
    reportCsv,          \* outputs/validation_report.csv
    mapPng              \* outputs/india_pm_map.png: the rows drawn

fetchVars == <<fetchPc, openaq_results, df_pm25, idx, weather_data_list,
               weatherCalls, weatherFailed, fetchLog>>
alignVars == <<alignIn, alignOut>>
fusionVars == <<fusionPc, fusionLog, all_aod_data, df_all_aod, df_attached,
                wroteMerged, runs, prevRun, lastRun, now>>
nnVars == <<nnIn, nnOut>>
trainVars == <<trainPc, trainLog, trainWrote>>
predictVars == <<predictPc, predictLog, predictWrote>>
runnerVars == <<runnerPc, runnerLog, pipelineRuns>>
diskVars  == <<cpcbCsv, rasterDir, mergedCsv, modelPkl, reportCsv, mapPng>>
vars == <<fetchVars, alignVars, fusionVars, nnVars, trainVars, predictVars,
          runnerVars, diskVars>>

\* What a step of one stage leaves alone besides the files.
exceptFetch == <<alignVars, fusionVars, nnVars, trainVars, predictVars, runnerVars>>
exceptFusion == <<fetchVars, alignVars, nnVars, trainVars, predictVars, runnerVars>>
exceptTrain == <<fetchVars, alignVars, fusionVars, nnVars, predictVars, runnerVars>>
exceptPredict == <<fetchVars, alignVars, fusionVars, nnVars, trainVars, runnerVars>>

----------------------------------------------------------------------------
(* Bounds and input sets *)

MaxReadings == 3        \* items in one OpenAQ answer
MaxHours == 2           \* entries in one hourly forecast series

NaN == -1               \* np.nan: a missing value of a DataFrame
NA == -2                \* pd.NA, as assigned at fetch_data.py:142-144

\* A file: whether it exists, and its rows.
Absent == [exists |-> FALSE, rows |-> <<>>]
File(rows) == [exists |-> TRUE, rows |-> rows]

Locs == {<<286, 772>>, <<286, 728>>, <<190, 728>>}   \* (lat, lon), tenths of a degree
Times == {24, 25}                                    \* ground reading hours
PMs == {35}
FTimes == {23, 24, 26}                               \* forecast entry hours
Temps == {20, 30}
Hums == {60}
Winds == {5}

\* One item of the OpenAQ 'results' list.  keys is FALSE for an item that lacks
\* one of value / coordinates.latitude / coordinates.longitude / date.utc.
ValidItems ==
    {[keys |-> TRUE, lat |-> l[1], lon |-> l[2], timestamp |-> t, value |-> p] :
        l \in Locs, t \in Times, p \in PMs}
BadItem == [keys |-> FALSE, lat |-> 0, lon |-> 0, timestamp |-> 0, value |-> 0]
Items == ValidItems \cup {BadItem}

SeqsUpTo(S, n) == UNION {[1..k -> S] : k \in 0..n}

ApiResponses == SeqsUpTo(Items, MaxReadings)

ForecastEntries ==
    [time : FTimes, temperature : Temps, humidity : Hums, wind_speed : Winds]
ForecastSeries == SeqsUpTo(ForecastEntries, MaxHours)

\* What one Open-Meteo call can do: raise inside requests (network, timeout, HTTP
\* status), answer without the 'hourly' keys, answer with something the DataFrame
\* constructor rejects, or answer with a series.
WeatherReplies ==
    {[kind |-> k, hourly |-> <<>>] : k \in {"RequestException", "KeyError", "Malformed"}}
    \cup {[kind |-> "ok", hourly |-> s] : s \in ForecastSeries}

----------------------------------------------------------------------------
(* DataFrame helpers *)

Abs(x) == IF x < 0 THEN -x ELSE x

Range(s) == {s[i] : i \in 1..Len(s)}

Perms(n) == {p \in [1..n -> 1..n] : \A i, j \in 1..n : i # j => p[i] # p[j]}

\* The sort of line 72 with ascending=True: the oldest reading comes first.
SortValuesAsc(df) ==
    {[i \in 1..Len(df) |-> df[p[i]]] : p \in
        {q \in Perms(Len(df)) :
            \A i, j \in 1..Len(df) : i < j => df[q[i]].timestamp <= df[q[j]].timestamp}}

\* df.sort_values(by='timestamp', ascending=False), fetch_data.py:72.  The default
\* sort is not stable: rows with equal timestamps may come out in any order.
SortValuesDesc(df) ==
    {[i \in 1..Len(df) |-> df[p[i]]] : p \in
        {q \in Perms(Len(df)) :
            \A i, j \in 1..Len(df) : i < j => df[q[i]].timestamp >= df[q[j]].timestamp}}

\* df.drop_duplicates(subset=['lat', 'lon']).reset_index(drop=True), fetch_data.py:73:
\* the first row of every (lat, lon) is kept, in order.
RECURSIVE DropDuplicatesFrom(_, _)
DropDuplicatesFrom(df, seen) ==
    IF df = <<>> THEN <<>>
    ELSE LET k == <<Head(df).lat, Head(df).lon>> IN
         IF k \in seen THEN DropDuplicatesFrom(Tail(df), seen)
         ELSE <<Head(df)>> \o DropDuplicatesFrom(Tail(df), seen \cup {k})

DropDuplicates(df) == DropDuplicatesFrom(df, {})

\* fetch_data.py:49-61: the items that pass the key validation, as records.
RECURSIVE Pm25Records(_)
Pm25Records(results) ==
    IF results = <<>> THEN <<>>
    ELSE IF Head(results).keys
         THEN <<[lat |-> Head(results).lat, lon |-> Head(results).lon,
                 timestamp |-> Head(results).timestamp,
                 pm25 |-> Head(results).value]>> \o Pm25Records(Tail(results))
         ELSE Pm25Records(Tail(results))

\* An idxmin that returns the last position holding the minimum.
IdxMinLast(s) ==
    CHOOSE i \in 1..Len(s) :
        /\ \A j \in 1..Len(s) : s[i] <= s[j]
        /\ \A j \in (i + 1)..Len(s) : s[j] > s[i]

\* Series.idxmin(), fetch_data.py:120: the first position holding the minimum.
IdxMin(s) ==
    CHOOSE i \in 1..Len(s) :
        /\ \A j \in 1..Len(s) : s[i] <= s[j]
        /\ \A j \in 1..(i - 1) : s[j] > s[i]

\* fetch_data.py:116-128: the forecast entry closest in time to the reading.
ClosestWeather(hourly, pm25_dt) ==
    LET time_diff == [i \in 1..Len(hourly) |-> Abs(hourly[i].time - pm25_dt)]
        closest_weather_row == hourly[IdxMin(time_diff)]
    IN [temperature |-> closest_weather_row.temperature,
        humidity |-> closest_weather_row.humidity,
        wind_speed |-> closest_weather_row.wind_speed]

\* pd.merge(df_pm25, df_weather, on=['lat', 'lon'], how='left'), fetch_data.py:148:
\* every left row once per matching right row, or once with NaN when none matches.
RECURSIVE MatchesOf(_, _)
MatchesOf(row, right) ==
    IF right = <<>> THEN <<>>
    ELSE IF Head(right).lat = row.lat /\ Head(right).lon = row.lon
         THEN <<[lat |-> row.lat, lon |-> row.lon, timestamp |-> row.timestamp,
                 pm25 |-> row.pm25, temperature |-> Head(right).temperature,
                 humidity |-> Head(right).humidity,
                 wind_speed |-> Head(right).wind_speed]>> \o MatchesOf(row, Tail(right))
         ELSE MatchesOf(row, Tail(right))

\* The merge of line 148 with how='inner': left rows without a match are dropped.
RECURSIVE MergeInner(_, _)
MergeInner(left, right) ==
    IF left = <<>> THEN <<>>
    ELSE MatchesOf(Head(left), right) \o MergeInner(Tail(left), right)

RECURSIVE MergeLeft(_, _)
MergeLeft(left, right) ==
    IF left = <<>> THEN <<>>
    ELSE LET m == MatchesOf(Head(left), right) IN
         (IF m = <<>>
          THEN <<[lat |-> Head(left).lat, lon |-> Head(left).lon,
                  timestamp |-> Head(left).timestamp, pm25 |-> Head(left).pm25,
                  temperature |-> NaN, humidity |-> NaN, wind_speed |-> NaN]>>
          ELSE m) \o MergeLeft(Tail(left), right)

\* fetch_data.py:141-144: no weather at all, the three columns are pd.NA.
FillNA(df) ==
    [i \in 1..Len(df) |->
        [lat |-> df[i].lat, lon |-> df[i].lon, timestamp |-> df[i].timestamp,
         pm25 |-> df[i].pm25, temperature |-> NA, humidity |-> NA, wind_speed |-> NA]]

\* DataFrame.to_csv followed by pd.read_csv: pd.NA and NaN are both written as an
\* empty field, and an empty field is read back as NaN.
CsvField(v) == IF v \in {NA, NaN} THEN NaN ELSE v

CsvRoundTrip(df) ==
    [i \in 1..Len(df) |->
        [lat |-> df[i].lat, lon |-> df[i].lon, timestamp |-> df[i].timestamp,
         pm25 |-> CsvField(df[i].pm25), temperature |-> CsvField(df[i].temperature),
         humidity |-> CsvField(df[i].humidity),
         wind_speed |-> CsvField(df[i].wind_speed)]]

----------------------------------------------------------------------------
(* fetch_data.py: fetch_cpcb_and_weather_data *)

FetchIdle ==
    /\ fetchPc = "start"
    /\ openaq_results = <<>>
    /\ df_pm25 = <<>>
    /\ idx = 0
    /\ weather_data_list = <<>>
    /\ weatherCalls = <<>>
    /\ weatherFailed = {}
    /\ fetchLog = <<>>

\* fetch_data.py:44-47 and 77-79: the OpenAQ request fails.
FetchGroundFails ==
    /\ fetchPc = "start"
    /\ fetchPc' = "returned"
    /\ fetchLog' = Append(fetchLog, "Error fetching PM2.5 data from OpenAQ")
    /\ UNCHANGED <<openaq_results, df_pm25, idx, weather_data_list, weatherCalls,
                   weatherFailed, exceptFetch, diskVars>>

\* fetch_data.py:44-75: the OpenAQ request succeeds.  With no valid record the
\* DataFrame has no columns and df_pm25['timestamp'] (line 64) raises KeyError,
\* which the except clause of line 77 does not catch.
FetchGroundFrom(Responses) ==
    /\ fetchPc = "start"
    /\ \E results \in Responses :
         LET pm25_records == Pm25Records(results) IN
         /\ openaq_results' = results
         /\ IF pm25_records = <<>>
            THEN /\ fetchPc' = "raised"
                 /\ df_pm25' = <<>>
                 /\ fetchLog' = Append(fetchLog, "KeyError: 'timestamp'")
            ELSE /\ fetchPc' = "weather"
                 /\ \E sorted \in SortValuesDesc(pm25_records) :
                        df_pm25' = DropDuplicates(sorted)
                 /\ fetchLog' = Append(fetchLog, "Fetched unique PM2.5 records")
    /\ UNCHANGED <<idx, weather_data_list, weatherCalls, weatherFailed,
                   exceptFetch, diskVars>>

FetchGround == FetchGroundFrom(ApiResponses)

\* fetch_data.py:86-135: one iteration of the weather loop.
FetchWeatherFrom(Replies) ==
    /\ fetchPc = "weather"
    /\ idx < Len(df_pm25)
    /\ LET row == df_pm25[idx + 1]
           loc == <<row.lat, row.lon>>
       IN \E reply \in Replies :
          /\ idx' = idx + 1
          /\ weatherCalls' = Append(weatherCalls, loc)
          /\ IF reply.kind = "ok" /\ reply.hourly # <<>>
             THEN LET w == ClosestWeather(reply.hourly, row.timestamp) IN
                  /\ weather_data_list' = Append(weather_data_list,
                        [lat |-> row.lat, lon |-> row.lon,
                         temperature |-> w.temperature, humidity |-> w.humidity,
                         wind_speed |-> w.wind_speed])
                  /\ UNCHANGED <<weatherFailed, fetchLog>>
             ELSE \* an except branch of lines 130-135; idxmin of an empty series
                  \* raises ValueError, caught at line 134
                  /\ weatherFailed' = weatherFailed \cup {loc}
                  /\ fetchLog' = Append(fetchLog, "Error fetching weather")
                  /\ UNCHANGED weather_data_list
    /\ UNCHANGED <<fetchPc, openaq_results, df_pm25, exceptFetch, diskVars>>

FetchWeather == FetchWeatherFrom(WeatherReplies)

\* fetch_data.py:137-153: merge and save.
SaveCombined ==
    /\ fetchPc = "weather"
    /\ idx = Len(df_pm25)
    /\ LET df_final == IF weather_data_list = <<>>
                       THEN FillNA(df_pm25)
                       ELSE MergeLeft(df_pm25, weather_data_list)
       IN cpcbCsv' = File(CsvRoundTrip(df_final))
    /\ fetchPc' = "returned"
    /\ fetchLog' = Append(fetchLog, "Combined data saved")
    /\ UNCHANGED <<openaq_results, df_pm25, idx, weather_data_list, weatherCalls,
                   weatherFailed, exceptFetch, rasterDir, mergedCsv, modelPkl,
                   reportCsv, mapPng>>

----------------------------------------------------------------------------
(* The weather aligner on its own inputs *)

AlignIdle == alignIn = <<>> /\ alignOut = <<>>

Align ==
    /\ alignIn # <<>>
    /\ alignOut = <<>>
    /\ alignOut' = <<ClosestWeather(alignIn[1], alignIn[2])>>
    /\ UNCHANGED <<alignIn, fetchVars, fusionVars, nnVars, trainVars, predictVars,
                   runnerVars, diskVars>>

----------------------------------------------------------------------------
(* process_satellite_data.py: inputs *)

MaxGround == 2          \* rows of the ground+weather table
MaxFiles == 2           \* entries of data/raw/INSAT_AOD/
MaxSat == 3             \* satellite points given to the attachment taken alone

time_scale_factor == 864000     \* seconds, process_satellite_data.py:123

ClockValues == <<48, 120>>      \* the wall clock, hours; it only moves forward
MaxRuns == Len(ClockValues)     \* runs of the fusion stage

NoDir == [exists |-> FALSE, files |-> <<>>]
Dir(files) == [exists |-> TRUE, files |-> files]

GroundLocs == {<<286, 772>>, <<190, 728>>}
GroundRow(l) ==
    [lat |-> l[1], lon |-> l[2], timestamp |-> 24, pm25 |-> 35,
     temperature |-> 20, humidity |-> 60, wind_speed |-> 5]
\* Complete rows, and rows that miss one of the four ground fields.
GroundRows ==
    {GroundRow(l) : l \in GroundLocs}
    \cup {[GroundRow(<<286, 772>>) EXCEPT ![f] = NaN] :
            f \in {"pm25", "temperature", "humidity", "wind_speed"}}
GroundTables == {Absent} \cup {File(rows) : rows \in SeqsUpTo(GroundRows, MaxGround)}

\* A file name, as far as re.search(r'(\d{8})_(\d{4})', name) sees it: whether the
\* pattern matches, and the two digit groups read as numbers.
NoStamp == [match |-> FALSE, date |-> 0, hhmm |-> 0]
Stamp(d, t) == [match |-> TRUE, date |-> d, hhmm |-> t]

Cell(lat, lon, t, aod) == [lat |-> lat, lon |-> lon, time |-> t, AOD |-> aod]

\* A directory entry.  kind: "other" (not .nc/.nc4/.hdf), "unreadable"
\* (xr.open_dataset raises), "malformed" (the AOD variable or a lat/lon dimension
\* is missing), "time" (has a time dimension), "notime" (has none).
RasterFile(kind, name, cells) == [kind |-> kind, name |-> name, cells |-> cells]
RasterFiles ==
    { RasterFile("other", NoStamp, <<>>),
      RasterFile("unreadable", NoStamp, <<>>),
      RasterFile("malformed", NoStamp, <<>>),
      RasterFile("time", NoStamp,
                 <<Cell(286, 772, 24, 4), Cell(190, 729, 24, 6)>>),
      RasterFile("notime", Stamp(20240102, 0),
                 <<Cell(286, 775, NaN, 7), Cell(190, 727, NaN, NaN)>>),
      RasterFile("notime", Stamp(20241345, 9999), <<Cell(286, 772, NaN, 8)>>),
      RasterFile("notime", NoStamp, <<Cell(286, 772, NaN, 5)>>) }
RasterDirs == {NoDir} \cup {Dir(fs) : fs \in SeqsUpTo(RasterFiles, MaxFiles)}

SatLats == {286, 287}
SatLons == {772}
SatTimes == {0, 24, 60}
AODs == {4, 6}
SatPoints ==
    {[lat |-> la, lon |-> lo, timestamp |-> t, AOD |-> a] :
        la \in SatLats, lo \in SatLons, t \in SatTimes, a \in AODs}

----------------------------------------------------------------------------
(* process_satellite_data.py: reading the raster files *)

NaT == NaN

\* Days of the months of 2024 before month m.
DaysBefore(m) ==
    LET len == <<31, 29, 31, 30, 31, 30, 31, 31, 30, 31, 30, 31>>
        F[k \in 0..12] == IF k = 0 THEN 0 ELSE F[k - 1] + len[k]
    IN F[m - 1]
DaysIn(m) == DaysBefore(m + 1) - DaysBefore(m)

\* pd.to_datetime(f"{date_str}{time_str}", format='%Y%m%d%H%M', errors='coerce'),
\* process_satellite_data.py:86, for a date of 2024 and whole hours: the hours
\* since 2024-01-01T00:00Z, or NaT when the digits are no date and time.
ParseStamp(date, hhmm) ==
    LET month == (date \div 100) % 100
        day == date % 100
        hour == hhmm \div 100
        minute == hhmm % 100
    IN IF /\ month \in 1..12
          /\ day >= 1 /\ day <= DaysIn(month)
          /\ hour <= 23 /\ minute <= 59
       THEN 24 * (DaysBefore(month) + day - 1) + hour
       ELSE NaT

\* A frame of satellite points with the timestamp t on every row.
WithTimestamp(cells, t) ==
    [i \in 1..Len(cells) |->
        [lat |-> cells[i].lat, lon |-> cells[i].lon, timestamp |-> t,
         AOD |-> cells[i].AOD]]

\* process_satellite_data.py:72-90: a file without a time dimension.  The
\* timestamp comes from the file name when the pattern matches, else from the
\* clock; rows whose timestamp is NaT are dropped (line 90).
InferTimestamp(f, clock) ==
    LET t == IF f.name.match THEN ParseStamp(f.name.date, f.name.hhmm) ELSE clock
    IN IF t = NaT THEN <<>> ELSE WithTimestamp(f.cells, t)

\* process_satellite_data.py:64-71: a file with a time dimension.
ExplicitTimestamp(f) ==
    [i \in 1..Len(f.cells) |->
        [lat |-> f.cells[i].lat, lon |-> f.cells[i].lon,
         timestamp |-> f.cells[i].time, AOD |-> f.cells[i].AOD]]

\* process_satellite_data.py:41: the directory entries with a raster extension.
RECURSIVE InsatFiles(_)
InsatFiles(files) ==
    IF files = <<>> THEN <<>>
    ELSE (IF Head(files).kind = "other" THEN <<>> ELSE <<Head(files)>>)
         \o InsatFiles(Tail(files))

\* process_satellite_data.py:47-98: the frames appended to all_aod_data.
RECURSIVE LoadAll(_, _)
LoadAll(files, clock) ==
    IF files = <<>> THEN <<>>
    ELSE LET f == Head(files) IN
         (CASE f.kind = "time" -> <<ExplicitTimestamp(f)>>
            [] f.kind = "notime" -> <<InferTimestamp(f, clock)>>
            [] OTHER -> <<>>)
         \o LoadAll(Tail(files), clock)

\* The messages of lines 43-45, 74 and 94-98.
RECURSIVE LoadLog(_)
LoadLog(files) ==
    IF files = <<>> THEN <<>>
    ELSE LET f == Head(files) IN
         (CASE f.kind = "time" -> <<"Successfully processed AOD">>
            [] f.kind = "notime" ->
                 <<"Warning: 'time' dimension not found", "Successfully processed AOD">>
            [] f.kind = "malformed" ->
                 <<"Warning: AOD variable or lat/lon dimensions not found">>
            [] OTHER -> <<"Error processing INSAT AOD file">>)
         \o LoadLog(Tail(files))

----------------------------------------------------------------------------
(* process_satellite_data.py: the nearest-neighbour attachment *)

\* pd.concat(all_aod_data, ignore_index=True), line 106: the rows of every
\* frame, labelled 0, 1, 2, ...
RECURSIVE Flatten(_)
Flatten(frames) ==
    IF frames = <<>> THEN <<>> ELSE Head(frames) \o Flatten(Tail(frames))

Labelled(row, label) ==
    [label |-> label, lat |-> row.lat, lon |-> row.lon,
     timestamp |-> row.timestamp, AOD |-> row.AOD]

Concat(frames) ==
    LET rows == Flatten(frames)
    IN [i \in 1..Len(rows) |-> Labelled(rows[i], i - 1)]

\* df.drop_duplicates(subset=['lat', 'lon', 'timestamp']), line 108: the first
\* row of every point is kept, with its label.
RECURSIVE DropDuplicatePoints(_, _)
DropDuplicatePoints(df, seen) ==
    IF df = <<>> THEN <<>>
    ELSE LET k == <<Head(df).lat, Head(df).lon, Head(df).timestamp>> IN
         IF k \in seen THEN DropDuplicatePoints(Tail(df), seen)
         ELSE <<Head(df)>> \o DropDuplicatePoints(Tail(df), seen \cup {k})

\* .reset_index(drop=True), line 108: the rows relabelled 0, 1, 2, ...
ResetIndex(df) == [i \in 1..Len(df) |-> Labelled(df[i], i - 1)]

\* A distance that leaves the time coordinate out of the index.
SpatialDist2(p, q) ==
    (p.lat - q.lat) * (p.lat - q.lat) + (p.lon - q.lon) * (p.lon - q.lon)

\* The squared Euclidean distance of lines 125-134 between the points
\* (lat, lon, time_float / time_scale_factor), in units that keep it an integer:
\* with lat and lon in tenths of a degree and time in hours it is
\* ((dlat/10)^2 + (dlon/10)^2 + (3600*dt/time_scale_factor)^2), which is the value
\* below divided by (time_scale_factor/3600)^2.
Dist2(p, q) ==
    LET k == (time_scale_factor \div 3600) \div 10
    IN k * k * ((p.lat - q.lat) * (p.lat - q.lat) + (p.lon - q.lon) * (p.lon - q.lon))
       + (p.timestamp - q.timestamp) * (p.timestamp - q.timestamp)

\* tree.query(x) for one row, line 134: the position (from 0) of a nearest point
\* of the tree.  Which one among equally near points is the index's choice; an
\* empty tree answers with its size, 0.
TreeQuery(df, q) ==
    IF df = <<>> THEN {0}
    ELSE {i - 1 : i \in {j \in 1..Len(df) :
                            \A m \in 1..Len(df) : Dist2(df[j], q) <= Dist2(df[m], q)}}

\* The index vectors tree.query can return for the ground rows.
QueryAll(df, ground) ==
    {ix \in [1..Len(ground) -> 0..Len(df)] :
        \A i \in 1..Len(ground) : ix[i] \in TreeQuery(df, ground[i])}

Labels(df) == {df[i].label : i \in 1..Len(df)}

\* df_all_aod.loc[label, 'AOD'], line 139.
LocAOD(df, label) == (CHOOSE r \in Range(df) : r.label = label).AOD

WithAOD(row, aod) ==
    [lat |-> row.lat, lon |-> row.lon, timestamp |-> row.timestamp,
     pm25 |-> row.pm25, temperature |-> row.temperature, humidity |-> row.humidity,
     wind_speed |-> row.wind_speed, AOD |-> aod]

\* Lines 103-104: no frame at all, the AOD column is NaN.
FillAOD(ground) == [i \in 1..Len(ground) |-> WithAOD(ground[i], NaN)]

\* Lines 106-144 for one answer ix of the index: .loc raises KeyError when a
\* label it is given is not in the frame.
Attach(df, ground, ix) ==
    IF \E i \in 1..Len(ground) : ix[i] \notin Labels(df)
    THEN [raised |-> TRUE, points |-> df, rows |-> <<>>]
    ELSE [raised |-> FALSE, points |-> df,
          rows |-> [i \in 1..Len(ground) |-> WithAOD(ground[i], LocAOD(df, ix[i]))]]

\* Lines 100-144: every result the attachment can have.
AttachAOD(frames, ground) ==
    IF frames = <<>>
    THEN {[raised |-> FALSE, points |-> <<>>, rows |-> FillAOD(ground)]}
    ELSE LET df == ResetIndex(DropDuplicatePoints(Concat(frames), {}))
         IN {Attach(df, ground, ix) : ix \in QueryAll(df, ground)}

\* A row that misses the humidity check.
IsCompleteButHumidity(row) ==
    /\ row.AOD # NaN /\ row.temperature # NaN
    /\ row.wind_speed # NaN /\ row.pm25 # NaN

\* Lines 148-149: a row dropna(subset=required_final_columns) keeps.
IsComplete(row) ==
    /\ row.AOD # NaN /\ row.temperature # NaN /\ row.humidity # NaN
    /\ row.wind_speed # NaN /\ row.pm25 # NaN

RECURSIVE DropNA(_)
DropNA(df) ==
    IF df = <<>> THEN <<>>
    ELSE (IF IsComplete(Head(df)) THEN <<Head(df)>> ELSE <<>>) \o DropNA(Tail(df))

\* A to_csv that appends to the file it finds (mode='a').
AppendCsv(old, df) == File(old.rows \o df)

\* df_merged.to_csv(processed_output_path, index=False), line 158: the file is
\* replaced.
WriteCsv(old, df) == File(df)

----------------------------------------------------------------------------
(* process_satellite_data.py: process_satellite_data *)

FusionIdle ==
    /\ fusionPc = "none"
    /\ fusionLog = <<>>
    /\ all_aod_data = <<>>
    /\ df_all_aod = <<>>
    /\ df_attached = <<>>
    /\ wroteMerged = FALSE
    /\ runs = 0
    /\ prevRun = <<>>
    /\ lastRun = <<>>

\* What a run leaves behind, for comparing two runs.
RunRecord(pc, clock, tied, usedClock, wrote, table) ==
    [pc |-> pc, clock |-> clock, tied |-> tied, usedClock |-> usedClock,
     wrote |-> wrote, table |-> table]

\* Whether two points of the index are equally near to a ground row.
Tied(df, ground) ==
    \E i \in 1..Len(ground) : Cardinality(TreeQuery(df, ground[i])) > 1

\* Whether a file takes its timestamp from the clock (line 89).
UsesClock(files) ==
    \E i \in 1..Len(files) : files[i].kind = "notime" /\ ~files[i].name.match

\* The guard is left out: the function goes on without the table.
GroundNeverMissing == FALSE

\* not os.path.exists(cpcb_and_weather_path), line 30.
GroundMissing == ~cpcbCsv.exists

\* One run of the function.
ProcessSatelliteData ==
    /\ fusionPc = "start"
    /\ prevRun' = lastRun
    /\ IF GroundMissing
       THEN \* lines 30-32
            /\ fusionPc' = "returned"
            /\ fusionLog' = <<"Error: data/raw/cpcb_live_with_weather.csv not found">>
            /\ all_aod_data' = <<>> /\ df_all_aod' = <<>> /\ df_attached' = <<>>
            /\ wroteMerged' = FALSE
            /\ lastRun' = <<RunRecord("returned", now, FALSE, FALSE, FALSE, mergedCsv)>>
            /\ UNCHANGED mergedCsv
       ELSE IF ~rasterDir.exists
       THEN \* line 41: os.listdir raises FileNotFoundError
            /\ fusionPc' = "raised"
            /\ fusionLog' = <<"FileNotFoundError: data/raw/INSAT_AOD/">>
            /\ all_aod_data' = <<>> /\ df_all_aod' = <<>> /\ df_attached' = <<>>
            /\ wroteMerged' = FALSE
            /\ lastRun' = <<RunRecord("raised", now, FALSE, FALSE, FALSE, mergedCsv)>>
            /\ UNCHANGED mergedCsv
       ELSE LET insat_files == InsatFiles(rasterDir.files)
                frames == LoadAll(insat_files, now)
                loadLog == IF insat_files = <<>>
                           THEN <<"No INSAT AOD files found">>
                           ELSE LoadLog(insat_files)
                ground == cpcbCsv.rows
            IN \E res \in AttachAOD(frames, ground) :
               LET df_merged == DropNA(res.rows)
                   tied == frames # <<>> /\ Tied(res.points, ground)
                   usedClock == UsesClock(insat_files)
               IN
               /\ all_aod_data' = frames
               /\ df_all_aod' = res.points
               /\ df_attached' = res.rows
               /\ IF res.raised
                  THEN \* line 139
                       /\ fusionPc' = "raised"
                       /\ fusionLog' = loadLog \o <<"KeyError">>
                       /\ wroteMerged' = FALSE
                       /\ lastRun' = <<RunRecord("raised", now, tied, usedClock,
                                                 FALSE, mergedCsv)>>
                       /\ UNCHANGED mergedCsv
                  ELSE IF df_merged = <<>>
                  THEN \* lines 151-153
                       /\ fusionPc' = "returned"
                       /\ fusionLog' = loadLog
                            \o (IF frames = <<>> THEN <<"No INSAT AOD data processed">>
                                ELSE <<>>)
                            \o <<"No complete data records after merging all sources">>
                       /\ wroteMerged' = FALSE
                       /\ lastRun' = <<RunRecord("returned", now, tied, usedClock,
                                                 FALSE, mergedCsv)>>
                       /\ UNCHANGED mergedCsv
                  ELSE \* lines 156-159
                       /\ fusionPc' = "returned"
                       /\ fusionLog' = loadLog \o <<"Final merged data saved">>
                       /\ wroteMerged' = TRUE
                       /\ mergedCsv' = WriteCsv(mergedCsv, df_merged)
                       /\ lastRun' = <<RunRecord("returned", now, tied, usedClock,
                                                 TRUE, WriteCsv(mergedCsv, df_merged))>>
    /\ UNCHANGED <<now, runs, exceptFusion, cpcbCsv, rasterDir, modelPkl,
                   reportCsv, mapPng>>

\* Lines 161-163: the script is run again, at once or after some time.
Reinvoke ==
    /\ fusionPc \in {"returned", "raised"}
    /\ runs < MaxRuns
    /\ runs' = runs + 1
    /\ fusionPc' = "start"
    /\ \E i, j \in 1..Len(ClockValues) :
         i <= j /\ now = ClockValues[i] /\ now' = ClockValues[j]
    /\ UNCHANGED <<fusionLog, all_aod_data, df_all_aod, df_attached,
                   wroteMerged, prevRun, lastRun, exceptFusion, diskVars>>

----------------------------------------------------------------------------
(* The attachment on its own inputs *)

NearestIdle == nnIn = <<>> /\ nnOut = <<>>

NearestAttach ==
    /\ nnIn # <<>>
    /\ nnOut = <<>>
    /\ \E res \in AttachAOD(nnIn[1], nnIn[2]) : nnOut' = <<res>>
    /\ UNCHANGED <<nnIn, fetchVars, alignVars, fusionVars, trainVars, predictVars,
                   runnerVars, diskVars>>

----------------------------------------------------------------------------
(* train_model.py: train_pm_model *)

TrainIdle == trainPc = "none" /\ trainLog = <<>> /\ trainWrote = FALSE

\* train_test_split(X, y, test_size=0.2, random_state=42), line 45: the number of
\* test rows is ceil(0.2 * n), the others are training rows.  For the row counts
\* used here the floating-point product 0.2 * n rounds up as the exact one does.
\* A split that rounds the number of test rows down.
TestSizeFloor(n) == n \div 5

TestSize(n) == (n + 4) \div 5
TrainSize(n) == n - TestSize(n)

\* The permutation of the split.  With random_state=42 it depends on the number
\* of rows only: it is RandomState(42).permutation(n), a Fisher-Yates shuffle of
\* 0..n-1 driven by the Mersenne Twister seeded with 42.  Row numbers are
\* counted from 1 here.
SeededPermutations ==
    <<
      <<1>>,
      <<2, 1>>,
      <<1, 2, 3>>,
      <<2, 4, 1, 3>>,
      <<2, 5, 3, 1, 4>>,
      <<1, 2, 6, 3, 5, 4>>,
      <<1, 2, 6, 3, 5, 4, 7>>,
      <<2, 6, 1, 8, 3, 5, 4, 7>>,
      <<8, 2, 6, 1, 9, 3, 5, 4, 7>>,
      <<9, 2, 6, 1, 8, 3, 10, 5, 4, 7>>,
      <<6, 1, 10, 11, 3, 2, 9, 5, 8, 4, 7>>,
      <<11, 10, 1, 9, 6, 3, 2, 12, 5, 8, 4, 7>>
    >>
Shuffle(n) == SeededPermutations[n]

\* What train_test_split does when the train set would be empty: scikit-learn
\* 0.21 and later raise ValueError, earlier releases return the empty set.
SplitLibraries == {"raises", "returns"}

\* Line 45: the first TestSize(n) rows of the permutation are the test rows.
TestRows(df) ==
    [i \in 1..TestSize(Len(df)) |-> df[Shuffle(Len(df))[i]]]
TrainRows(df) ==
    [i \in 1..TrainSize(Len(df)) |-> df[Shuffle(Len(df))[TestSize(Len(df)) + i]]]

\* not os.path.exists(processed_data_path), line 18 (and predict_and_map.py:15).
FusedMissing == ~mergedCsv.exists

\* One run of the function.  The table the fusion stage writes always has the
\* required columns, so the check of lines 26-32 passes.
TrainPmModel ==
    /\ trainPc = "start"
    /\ IF FusedMissing
       THEN \* lines 18-20
            /\ trainPc' = "returned"
            /\ trainLog' = <<"Error: data/processed/merged_data.csv not found">>
            /\ trainWrote' = FALSE
            /\ UNCHANGED <<modelPkl, reportCsv>>
       ELSE LET df_cleaned == DropNA(mergedCsv.rows)
            IN IF df_cleaned = <<>>
               THEN \* lines 37-39
                    /\ trainPc' = "returned"
                    /\ trainLog' = <<"No complete data records available for training">>
                    /\ trainWrote' = FALSE
                    /\ UNCHANGED <<modelPkl, reportCsv>>
               ELSE IF TrainSize(Len(df_cleaned)) = 0 \/ TestSize(Len(df_cleaned)) = 0
               THEN \E lib \in SplitLibraries :
                    IF lib = "raises" /\ TrainSize(Len(df_cleaned)) = 0
                    THEN \* line 45: train_test_split raises ValueError
                         /\ trainPc' = "raised"
                         /\ trainLog' = <<"ValueError">>
                         /\ trainWrote' = FALSE
                         /\ UNCHANGED <<modelPkl, reportCsv>>
                    ELSE \* lines 47-49
                         /\ trainPc' = "returned"
                         /\ trainLog' = <<"Not enough data to split into training and testing sets">>
                         /\ trainWrote' = FALSE
                         /\ UNCHANGED <<modelPkl, reportCsv>>
               ELSE \* lines 52-74
                    /\ trainPc' = "returned"
                    /\ trainLog' = <<"Training Random Forest model...",
                                     "Trained model saved", "Validation report saved">>
                    /\ trainWrote' = TRUE
                    /\ modelPkl' = File(TrainRows(df_cleaned))
                    /\ reportCsv' = File(TestRows(df_cleaned))
    /\ UNCHANGED <<exceptTrain, cpcbCsv, rasterDir, mergedCsv, mapPng>>

\* Lines 76-78: the script is run again on the files it finds.
ReinvokeTrain ==
    /\ trainPc \in {"returned", "raised"}
    /\ trainPc' = "start"
    /\ UNCHANGED <<trainLog, trainWrote, exceptTrain, diskVars>>

MaxRows == 10           \* complete rows of the fused table given to the trainer

\* A complete fused row; the rows of a table differ by their PM2.5 value.
FusedRow(i) ==
    [lat |-> 286, lon |-> 772, timestamp |-> 24, temperature |-> 20,
     humidity |-> 60, wind_speed |-> 5, pm25 |-> 30 + i, AOD |-> 4]

\* The tables the trainer is given: n complete rows, the same with the first row
\* twice, and the same with a row that misses its AOD put in at any place.
CompleteTable(n) == [i \in 1..n |-> FusedRow(i)]
WithRowAt(df, r, k) ==
    [i \in 1..(Len(df) + 1) |->
        IF i < k THEN df[i] ELSE IF i = k THEN r ELSE df[i - 1]]
TrainTables ==
    {CompleteTable(n) : n \in 0..MaxRows}
    \cup {WithRowAt(CompleteTable(n), FusedRow(1), 1) : n \in 1..(MaxRows - 1)}
    \cup UNION {{WithRowAt(CompleteTable(n), [FusedRow(0) EXCEPT !.AOD = NaN], k) :
                    k \in 1..(n + 1)} : n \in 0..MaxRows}

-----------------------------------------------------------------------------
(* predict_and_map.py: generate_pm_map *)

PredictIdle == predictPc = "none" /\ predictLog = <<>> /\ predictWrote = FALSE

\* Line 33: a row dropna(subset=required_features) keeps.
HasFeatures(row) ==
    /\ row.AOD # NaN /\ row.temperature # NaN /\ row.humidity # NaN
    /\ row.wind_speed # NaN

RECURSIVE DropNAFeatures(_)
DropNAFeatures(df) ==
    IF df = <<>> THEN <<>>
    ELSE (IF HasFeatures(Head(df)) THEN <<Head(df)>> ELSE <<>>)
         \o DropNAFeatures(Tail(df))

\* not os.path.exists(model_path), line 18.
ModelMissing == ~modelPkl.exists

\* One run of the function.
GeneratePmMap ==
    /\ predictPc = "start"
    /\ IF FusedMissing
       THEN \* lines 15-17
            /\ predictPc' = "returned"
            /\ predictLog' = <<"Error: data/processed/merged_data.csv not found">>
            /\ predictWrote' = FALSE
            /\ UNCHANGED mapPng
       ELSE IF ModelMissing
       THEN \* lines 18-20
            /\ predictPc' = "returned"
            /\ predictLog' = <<"Error: models/random_forest.pkl not found">>
            /\ predictWrote' = FALSE
            /\ UNCHANGED mapPng
       ELSE LET df_for_prediction == DropNAFeatures(mergedCsv.rows)
            IN IF df_for_prediction = <<>>
               THEN \* lines 35-37
                    /\ predictPc' = "returned"
                    /\ predictLog' = <<"No complete data records available for prediction">>
                    /\ predictWrote' = FALSE
                    /\ UNCHANGED mapPng
               ELSE \* lines 39-56
                    /\ predictPc' = "returned"
                    /\ predictLog' = <<"PM2.5 prediction map generated and saved">>
                    /\ predictWrote' = TRUE
                    /\ mapPng' = File([i \in 1..Len(df_for_prediction) |->
                                         [lat |-> df_for_prediction[i].lat,
                                          lon |-> df_for_prediction[i].lon]])
    /\ UNCHANGED <<exceptPredict, cpcbCsv, rasterDir, mergedCsv, modelPkl, reportCsv>>

-----------------------------------------------------------------------------
(* main_runner.py: run_script, __main__ *)

MaxPipelineRuns == 2    \* times the runner is started

RunnerIdle == runnerPc = "idle" /\ runnerLog = <<>> /\ pipelineRuns = 0

\* A runner that takes every return code for 0.
ReturnCodeZero(pc) == 0

\* Line 14: a process that ended with an uncaught exception has return code 1;
\* one that returned from its function, whatever it printed, has return code 0.
ReturnCode(pc) == IF pc = "raised" THEN 1 ELSE 0

\* Lines 17-21: the runner is started and runs the first script.
RunnerStart ==
    /\ runnerPc \in {"idle", "done", "exit1"}
    /\ pipelineRuns < MaxPipelineRuns
    /\ pipelineRuns' = pipelineRuns + 1
    /\ runnerPc' = "fetch"
    /\ runnerLog' = <<"Starting the complete PM2.5 Estimation pipeline...",
                      "--- Running: src/fetch_data.py ---">>
    /\ fetchPc' = "start"
    /\ openaq_results' = <<>> /\ df_pm25' = <<>> /\ idx' = 0
    /\ weather_data_list' = <<>> /\ weatherCalls' = <<>> /\ weatherFailed' = {}
    /\ fetchLog' = <<>>
    /\ UNCHANGED <<alignVars, fusionVars, nnVars, trainVars, predictVars, diskVars>>

\* Lines 9-15 for src/fetch_data.py, then line 26.
RunnerAfterFetch ==
    /\ runnerPc = "fetch"
    /\ fetchPc \in {"returned", "raised"}
    /\ IF ReturnCode(fetchPc) # 0
       THEN /\ runnerPc' = "exit1"
            /\ runnerLog' = Append(runnerLog,
                 "Script src/fetch_data.py failed with exit code 1")
            /\ UNCHANGED fusionPc
       ELSE /\ runnerPc' = "fusion"
            /\ runnerLog' = Append(runnerLog,
                 "--- Running: src/process_satellite_data.py ---")
            /\ fusionPc' = "start"
    /\ UNCHANGED <<fetchVars, alignVars, fusionLog, all_aod_data, df_all_aod,
                   df_attached, wroteMerged, runs, prevRun, lastRun, now, nnVars,
                   trainVars, predictVars, pipelineRuns, diskVars>>

\* Lines 9-15 for src/process_satellite_data.py, then line 29.
RunnerAfterFusion ==
    /\ runnerPc = "fusion"
    /\ fusionPc \in {"returned", "raised"}
    /\ IF ReturnCode(fusionPc) # 0
       THEN /\ runnerPc' = "exit1"
            /\ runnerLog' = Append(runnerLog,
                 "Script src/process_satellite_data.py failed with exit code 1")
            /\ UNCHANGED trainPc
       ELSE /\ runnerPc' = "train"
            /\ runnerLog' = Append(runnerLog, "--- Running: src/train_model.py ---")
            /\ trainPc' = "start"
    /\ UNCHANGED <<fetchVars, alignVars, fusionVars, nnVars, trainLog, trainWrote,
                   predictVars, pipelineRuns, diskVars>>

\* Lines 9-15 for src/train_model.py, then line 32.
RunnerAfterTrain ==
    /\ runnerPc = "train"
    /\ trainPc \in {"returned", "raised"}
    /\ IF ReturnCode(trainPc) # 0
       THEN /\ runnerPc' = "exit1"
            /\ runnerLog' = Append(runnerLog,
                 "Script src/train_model.py failed with exit code 1")
            /\ UNCHANGED predictPc
       ELSE /\ runnerPc' = "predict"
            /\ runnerLog' = Append(runnerLog, "--- Running: src/predict_and_map.py ---")
            /\ predictPc' = "start"
    /\ UNCHANGED <<fetchVars, alignVars, fusionVars, nnVars, trainVars, predictLog,
                   predictWrote, pipelineRuns, diskVars>>

\* Lines 9-15 for src/predict_and_map.py, then lines 34-35.
RunnerAfterPredict ==
    /\ runnerPc = "predict"
    /\ predictPc \in {"returned", "raised"}
    /\ IF ReturnCode(predictPc) # 0
       THEN /\ runnerPc' = "exit1"
            /\ runnerLog' = Append(runnerLog,
                 "Script src/predict_and_map.py failed with exit code 1")
       ELSE /\ runnerPc' = "done"
            /\ runnerLog' = Append(runnerLog,
                 "--- Backend pipeline completed successfully! ---")
    /\ UNCHANGED <<fetchVars, alignVars, fusionVars, nnVars, trainVars, predictVars,
                   pipelineRuns, diskVars>>

\* predict_and_map.py:59-61: the predictor is run by hand once the runner has
\* stopped, as the runner's last message invites for the dashboard.
InvokePredict ==
    /\ runnerPc = "exit1"
    /\ predictPc # "start"
    /\ predictPc' = "start"
    /\ UNCHANGED <<fetchVars, alignVars, fusionVars, nnVars, trainVars, predictLog,
                   predictWrote, runnerVars, diskVars>>

-----------------------------------------------------------------------------
(* The pipeline: inputs *)

\* What the OpenAQ request answers in a pipeline run: nothing valid, one reading,
\* or a reading at each of the two stations.
PipelineResponses ==
    { <<>>,
      <<[keys |-> TRUE, lat |-> 286, lon |-> 772, timestamp |-> 24, value |-> 35]>>,
      <<[keys |-> TRUE, lat |-> 286, lon |-> 772, timestamp |-> 24, value |-> 35],
        [keys |-> TRUE, lat |-> 190, lon |-> 728, timestamp |-> 24, value |-> 35]>> }

\* What an Open-Meteo call answers in a pipeline run: a failure, or the forecast
\* of the hour of the reading.
PipelineReplies ==
    { [kind |-> "RequestException", hourly |-> <<>>],
      [kind |-> "ok", hourly |-> <<[time |-> 24, temperature |-> 20,
                                    humidity |-> 60, wind_speed |-> 5]>>] }

\* data/raw/INSAT_AOD/ in a pipeline run: absent, empty, or holding one raster
\* with a time coordinate.
PipelineDirs ==
    { NoDir, Dir(<<>>),
      Dir(<<RasterFile("time", NoStamp,
                       <<Cell(286, 772, 24, 4), Cell(190, 729, 24, 6)>>)>>) }

-----------------------------------------------------------------------------
(* Specifications *)

\* No process has run yet; the fetch stage is about to.
Quiet ==
    /\ FetchIdle
    /\ AlignIdle
    /\ NearestIdle
    /\ TrainIdle
    /\ PredictIdle
    /\ RunnerIdle

DiskEmpty ==
    /\ cpcbCsv = Absent /\ rasterDir = NoDir /\ mergedCsv = Absent
    /\ modelPkl = Absent /\ reportCsv = Absent /\ mapPng = Absent

InitFetch ==
    /\ Quiet
    /\ FusionIdle
    /\ now = ClockValues[1]
    /\ DiskEmpty

NextFetch == FetchGroundFails \/ FetchGround \/ FetchWeather \/ SaveCombined

SpecFetch == InitFetch /\ [][NextFetch]_vars

\* Everything but the variables of the two stand-alone computations.
QuietButInputs ==
    /\ FetchIdle
    /\ FusionIdle
    /\ TrainIdle
    /\ PredictIdle
    /\ RunnerIdle
    /\ now = ClockValues[1]
    /\ DiskEmpty

InitAlign ==
    /\ QuietButInputs
    /\ NearestIdle
    /\ alignOut = <<>>
    /\ \E s \in ForecastSeries \ {<<>>}, t \in Times : alignIn = <<s, t>>

NextAlign == Align

SpecAlign == InitAlign /\ [][NextAlign]_vars

InitFusion ==
    /\ Quiet
    /\ fusionPc = "start"
    /\ fusionLog = <<>> /\ all_aod_data = <<>> /\ df_all_aod = <<>>
    /\ df_attached = <<>> /\ wroteMerged = FALSE
    /\ prevRun = <<>> /\ lastRun = <<>>
    /\ runs = 1
    /\ now = ClockValues[1]
    /\ cpcbCsv \in GroundTables
    /\ rasterDir \in RasterDirs
    /\ mergedCsv = Absent /\ modelPkl = Absent /\ reportCsv = Absent /\ mapPng = Absent

NextFusion == ProcessSatelliteData \/ Reinvoke

SpecFusion == InitFusion /\ [][NextFusion]_vars

\* The ground rows of the spec's end-to-end scenario and a far one.
NearestGround ==
    {GroundRow(l) : l \in {<<286, 772>>, <<190, 728>>}}

InitNearest ==
    /\ QuietButInputs
    /\ AlignIdle
    /\ nnOut = <<>>
    /\ \E sat \in SeqsUpTo(SatPoints, MaxSat) \ {<<>>},
          ground \in [1..2 -> NearestGround] :
         nnIn = <<<<sat>>, ground>>

NextNearest == NearestAttach

SpecNearest == InitNearest /\ [][NextNearest]_vars

\* The trainer on its own, run and run again on a fused table it is given.
InitTrain ==
    /\ FetchIdle
    /\ AlignIdle
    /\ FusionIdle
    /\ NearestIdle
    /\ PredictIdle
    /\ RunnerIdle
    /\ trainPc = "start" /\ trainLog = <<>> /\ trainWrote = FALSE
    /\ now = ClockValues[1]
    /\ cpcbCsv = Absent /\ rasterDir = NoDir
    /\ modelPkl = Absent /\ reportCsv = Absent /\ mapPng = Absent
    /\ mergedCsv \in {Absent} \cup {File(rows) : rows \in TrainTables}

NextTrain == TrainPmModel \/ ReinvokeTrain

SpecTrain == InitTrain /\ [][NextTrain]_vars

\* The pipeline, run from an empty disk but for the raster directory, which the
\* user fills by hand.
Init ==
    /\ fetchPc = "none"
    /\ openaq_results = <<>> /\ df_pm25 = <<>> /\ idx = 0
    /\ weather_data_list = <<>> /\ weatherCalls = <<>> /\ weatherFailed = {}
    /\ fetchLog = <<>>
    /\ AlignIdle
    /\ FusionIdle
    /\ NearestIdle
    /\ TrainIdle
    /\ PredictIdle
    /\ RunnerIdle
    /\ now = ClockValues[1]
    /\ cpcbCsv = Absent /\ mergedCsv = Absent
    /\ modelPkl = Absent /\ reportCsv = Absent /\ mapPng = Absent
    /\ rasterDir \in PipelineDirs

Next ==
    \/ RunnerStart
    \/ FetchGroundFails
    \/ FetchGroundFrom(PipelineResponses)
    \/ FetchWeatherFrom(PipelineReplies)
    \/ SaveCombined
    \/ RunnerAfterFetch
    \/ ProcessSatelliteData
    \/ RunnerAfterFusion
    \/ TrainPmModel
    \/ RunnerAfterTrain
    \/ GeneratePmMap
    \/ RunnerAfterPredict
    \/ InvokePredict

Spec == Init /\ [][Next]_vars

----------------------------------------------------------------------------
(* Claims about fetch_data.py *)

ValidReadings == Range(Pm25Records(openaq_results))
LocOf(r) == <<r.lat, r.lon>>
Deduplicated == fetchPc = "weather" \/ (fetchPc = "returned" /\ df_pm25 # <<>>)

\* C2: the deduplication keeps exactly one reading per distinct (lat, lon) of the
\* valid readings, and the reading kept is one of that pair's readings with the
\* maximum timestamp.
C2_DedupKeepsLatest ==
    Deduplicated =>
        /\ {LocOf(r) : r \in Range(df_pm25)} = {LocOf(r) : r \in ValidReadings}
        /\ \A i, j \in 1..Len(df_pm25) : LocOf(df_pm25[i]) = LocOf(df_pm25[j]) => i = j
        /\ \A i \in 1..Len(df_pm25) :
             /\ df_pm25[i] \in ValidReadings
             /\ \A r \in ValidReadings :
                  LocOf(r) = LocOf(df_pm25[i]) => r.timestamp <= df_pm25[i].timestamp

\* A location reported twice, the older reading first, next to another location.
C2_Witness ==
    /\ Deduplicated
    /\ Len(df_pm25) = 2
    /\ \E i, j \in 1..Len(openaq_results) :
         /\ i < j
         /\ openaq_results[i].keys /\ openaq_results[j].keys
         /\ LocOf(openaq_results[i]) = LocOf(openaq_results[j])
         /\ openaq_results[i].timestamp < openaq_results[j].timestamp

\* C9: the weather values chosen for a reading are those of the forecast entry
\* whose timestamp is closest to the reading's; among equally close entries the
\* earliest-positioned one is chosen.
C9_ClosestForecastEntry ==
    alignOut # <<>> =>
        LET hourly == alignIn[1]
            t == alignIn[2]
        IN \E i \in 1..Len(hourly) :
             /\ \A j \in 1..Len(hourly) :
                  Abs(hourly[i].time - t) <= Abs(hourly[j].time - t)
             /\ \A j \in 1..Len(hourly) :
                  Abs(hourly[j].time - t) = Abs(hourly[i].time - t) => i <= j
             /\ alignOut[1].temperature = hourly[i].temperature
             /\ alignOut[1].humidity = hourly[i].humidity
             /\ alignOut[1].wind_speed = hourly[i].wind_speed

\* Two entries at the same distance on both sides of the reading, with different
\* temperatures.
C9_Witness ==
    /\ alignOut # <<>>
    /\ Len(alignIn[1]) = 2
    /\ alignIn[1][1].time < alignIn[2] /\ alignIn[2] < alignIn[1][2].time
    /\ alignIn[2] - alignIn[1][1].time = alignIn[1][2].time - alignIn[2]
    /\ alignIn[1][1].temperature # alignIn[1][2].temperature

WeatherMissing(row) ==
    row.temperature = NaN /\ row.humidity = NaN /\ row.wind_speed = NaN
WeatherPresent(row) ==
    row.temperature \in Temps /\ row.humidity \in Hums /\ row.wind_speed \in Winds

\* C10: a failed weather call does not abort the batch: the call is made for every
\* deduplicated location, the saved table has one row per deduplicated reading,
\* in order, and its weather fields are missing for exactly the locations whose
\* call failed.
C10_FailureDoesNotAbortBatch ==
    (fetchPc = "returned" /\ cpcbCsv.exists) =>
        /\ weatherCalls = [i \in 1..Len(df_pm25) |-> LocOf(df_pm25[i])]
        /\ Len(cpcbCsv.rows) = Len(df_pm25)
        /\ \A i \in 1..Len(df_pm25) :
             LET row == cpcbCsv.rows[i] IN
             /\ row.lat = df_pm25[i].lat /\ row.lon = df_pm25[i].lon
             /\ row.timestamp = df_pm25[i].timestamp /\ row.pm25 = df_pm25[i].pm25
             /\ IF LocOf(df_pm25[i]) \in weatherFailed
                THEN WeatherMissing(row)
                ELSE WeatherPresent(row)

\* The first location's call failed and a later one succeeded.
C10_Witness ==
    /\ fetchPc = "returned" /\ cpcbCsv.exists
    /\ Len(df_pm25) >= 2
    /\ LocOf(df_pm25[1]) \in weatherFailed
    /\ LocOf(df_pm25[2]) \notin weatherFailed

----------------------------------------------------------------------------
(* Claims about process_satellite_data.py *)

PointKey(p) == <<p.lat, p.lon, p.timestamp>>

\* 100 * ((dlat/10)^2 + (dlon/10)^2 + (3600*dt / 864000)^2) * (864000/3600)^2
BruteDist(p, g) ==
    (240 * (p.lat - g.lat)) * (240 * (p.lat - g.lat))
    + (240 * (p.lon - g.lon)) * (240 * (p.lon - g.lon))
    + (10 * (p.timestamp - g.timestamp)) * (10 * (p.timestamp - g.timestamp))

\* C1: with a non-empty set of satellite points, every ground row gets the AOD
\* of a deduplicated satellite point that a brute-force scan finds at minimal
\* Euclidean distance in (lat, lon, seconds / 864000); no row is left without a
\* match, however far the points are.
C1_NearestByBruteForce ==
    nnOut # <<>> =>
        LET raw == Flatten(nnIn[1])
            ground == nnIn[2]
            res == nnOut[1]
        IN /\ ~res.raised
           /\ {PointKey(p) : p \in Range(res.points)} = {PointKey(p) : p \in Range(raw)}
           /\ Len(res.rows) = Len(ground)
           /\ \A i \in 1..Len(ground) :
                /\ res.rows[i] = WithAOD(ground[i], res.rows[i].AOD)
                /\ \E p \in Range(res.points) :
                     /\ \A q \in Range(raw) :
                          BruteDist(p, ground[i]) <= BruteDist(q, ground[i])
                     /\ res.rows[i].AOD = p.AOD

\* A row whose nearest point in space is not its nearest point once time counts,
\* and a row more than nine degrees from every point.
C1_Witness ==
    /\ nnOut # <<>>
    /\ Len(nnIn[2]) = 2
    /\ \E p, q \in Range(nnOut[1].points) :
         /\ SpatialDist2(p, nnIn[2][1]) < SpatialDist2(q, nnIn[2][1])
         /\ BruteDist(q, nnIn[2][1]) < BruteDist(p, nnIn[2][1])
         /\ p.AOD # q.AOD
         /\ nnOut[1].rows[1].AOD = q.AOD
    /\ \A p \in Range(nnOut[1].points) : Abs(p.lat - nnIn[2][2].lat) > 90
    /\ nnOut[1].rows[2].AOD \in AODs

FusionRan == fusionPc \in {"returned", "raised"} /\ cpcbCsv.exists /\ rasterDir.exists

\* C3: when the run parsed no satellite observation at all, it skips the index,
\* gives every ground row a missing AOD and writes no fused table.
C3_EmptySatelliteSetSkipsIndex ==
    (FusionRan /\ Flatten(all_aod_data) = <<>>) =>
        /\ fusionPc = "returned"
        /\ df_attached = FillAOD(cpcbCsv.rows)
        /\ ~wroteMerged

Count(df, r) == Cardinality({i \in 1..Len(df) : df[i] = r})

\* C4: the fused table a run writes holds exactly the ground rows whose AOD,
\* temperature, humidity, wind_speed and PM2.5 are all present after the AOD is
\* attached, each as often as the ground table holds it.
C4_WrittenRowsAreTheCompleteRows ==
    wroteMerged =>
        /\ mergedCsv.exists
        /\ Len(df_attached) = Len(cpcbCsv.rows)
        /\ \A i \in 1..Len(df_attached) :
             df_attached[i] = WithAOD(cpcbCsv.rows[i], df_attached[i].AOD)
        /\ \A r \in Range(mergedCsv.rows) :
             /\ r.AOD # NaN /\ r.temperature # NaN /\ r.humidity # NaN
             /\ r.wind_speed # NaN /\ r.pm25 # NaN
        /\ \A r \in Range(df_attached) \cup Range(mergedCsv.rows) :
             Count(mergedCsv.rows, r) =
                IF NaN \in {r.AOD, r.temperature, r.humidity, r.wind_speed, r.pm25}
                THEN 0 ELSE Count(df_attached, r)

\* One row is written and one is dropped because the AOD it got is missing.
C4_Witness ==
    /\ wroteMerged
    /\ Len(mergedCsv.rows) = 1
    /\ \E r \in Range(df_attached) :
         r.AOD = NaN /\ r.pm25 # NaN /\ r.temperature # NaN
         /\ r.humidity # NaN /\ r.wind_speed # NaN

\* C5: process_satellite_data never raises.
C5_FusionNeverRaises == fusionPc # "raised"

TwoRuns ==
    /\ runs = 2 /\ fusionPc \in {"returned", "raised"}
    /\ ~prevRun[1].tied /\ ~lastRun[1].tied

SameOutput ==
    /\ lastRun[1].pc = prevRun[1].pc
    /\ lastRun[1].wrote = prevRun[1].wrote
    /\ lastRun[1].table = prevRun[1].table

\* C8 as stated: two runs on the same ground table and raster files give the
\* same fused table unless two satellite points are equally near a ground row.
C8_Idempotent == TwoRuns => SameOutput

\* C8 as amended: the same, provided no raster file takes its timestamp from the
\* wall clock.
C8_IdempotentWithoutClock ==
    (TwoRuns /\ ~lastRun[1].usedClock) => SameOutput

\* Two runs at different times, over a file whose timestamp comes from its name,
\* both writing the table.
C8_Witness ==
    /\ TwoRuns
    /\ ~lastRun[1].usedClock
    /\ lastRun[1].clock # prevRun[1].clock
    /\ lastRun[1].wrote
    /\ \E i \in 1..Len(rasterDir.files) :
         /\ rasterDir.files[i].kind = "notime"
         /\ rasterDir.files[i].name.match
         /\ ParseStamp(rasterDir.files[i].name.date, rasterDir.files[i].name.hhmm) # NaT


\* The directory entries a frame is appended for, in the order of the listing.
IsLoaded(f) == f.kind \in {"time", "notime"}
LoadedFiles == SelectSeq(rasterDir.files, IsLoaded)

\* The timestamp the claim gives a file without a time coordinate: the one of
\* its name when the name holds a valid date and time, else the wall clock.
ClaimedTimestamp(f) ==
    LET recovered == IF f.name.match THEN ParseStamp(f.name.date, f.name.hhmm)
                     ELSE NaT
    IN IF recovered # NaT THEN recovered ELSE now

\* C15: every observation of a raster that has the AOD variable and lat/lon
\* dimensions but no time coordinate is kept, with the timestamp recovered from
\* the YYYYMMDD_HHMM part of the file name, or with the wall-clock time when
\* the name has no such part or the part is no valid date and time.
C15_NoTimeFileKeepsItsObservations ==
    FusionRan =>
        /\ Len(all_aod_data) = Len(LoadedFiles)
        /\ \A i \in 1..Len(LoadedFiles) :
             LoadedFiles[i].kind = "notime"
             => all_aod_data[i]
                  = WithTimestamp(LoadedFiles[i].cells, ClaimedTimestamp(LoadedFiles[i]))

-----------------------------------------------------------------------------
(* Claims about the pipeline *)

\* The fusion run of the current pipeline run ended in lines 151-153: no record
\* was complete, nothing was written.
ZeroCompleteRecords ==
    /\ runnerPc \in {"train", "predict", "done"}
    /\ fusionPc = "returned" /\ ~wroteMerged
    /\ fusionLog # <<>>
    /\ fusionLog[Len(fusionLog)] = "No complete data records after merging all sources"

\* C6: in a pipeline run whose fusion stage ends with zero complete records, the
\* training stage of that run does not fit or persist a model, whatever earlier
\* runs left on disk.
C6_TotalFailureStopsTraining ==
    (ZeroCompleteRecords /\ trainPc # "start") => ~trainWrote

\* C7: a stage that finds its upstream artifact absent (fusion: the ground and
\* weather table; trainer: the fused table; predictor: the fused table or the
\* model) prints the diagnostic naming the missing file, returns without raising
\* and leaves its own output files as they were.
C7_MissingInputLeavesOutputs ==
    [][ /\ (fusionPc = "start" /\ fusionPc' # "start" /\ ~cpcbCsv.exists)
           => /\ fusionPc' = "returned"
              /\ fusionLog' = <<"Error: data/raw/cpcb_live_with_weather.csv not found">>
              /\ mergedCsv' = mergedCsv
        /\ (trainPc = "start" /\ trainPc' # "start" /\ ~mergedCsv.exists)
           => /\ trainPc' = "returned"
              /\ trainLog' = <<"Error: data/processed/merged_data.csv not found">>
              /\ modelPkl' = modelPkl /\ reportCsv' = reportCsv
        /\ (predictPc = "start" /\ predictPc' # "start" /\ ~mergedCsv.exists)
           => /\ predictPc' = "returned"
              /\ predictLog' = <<"Error: data/processed/merged_data.csv not found">>
              /\ mapPng' = mapPng
        /\ (predictPc = "start" /\ predictPc' # "start" /\ mergedCsv.exists
              /\ ~modelPkl.exists)
           => /\ predictPc' = "returned"
              /\ predictLog' = <<"Error: models/random_forest.pkl not found">>
              /\ mapPng' = mapPng
      ]_vars

\* A pipeline run in which the OpenAQ request failed on an empty disk: each of
\* the three later stages found its input absent, said so, and wrote nothing.
C7_Witness ==
    /\ runnerPc = "done"
    /\ fusionPc = "returned"
    /\ fusionLog = <<"Error: data/raw/cpcb_live_with_weather.csv not found">>
    /\ trainPc = "returned"
    /\ trainLog = <<"Error: data/processed/merged_data.csv not found">>
    /\ predictPc = "returned"
    /\ predictLog = <<"Error: data/processed/merged_data.csv not found">>
    /\ mergedCsv = Absent /\ modelPkl = Absent /\ reportCsv = Absent
    /\ mapPng = Absent

\* The predictor was run with the fused table on disk and no model.
PredictorMissedModel ==
    /\ predictPc = "returned"
    /\ predictLog = <<"Error: models/random_forest.pkl not found">>
    /\ mergedCsv.exists /\ mapPng = Absent


\* C12: a stage whose cleaned result set is empty (fetch: the ground API
\* answered and gave no valid record; fusion: no complete fused record is left;
\* predictor: no row has all four features) prints a diagnostic, returns
\* without raising and leaves its output file as it was.
C12_EmptyResultIsReported ==
    [][ /\ ( /\ fetchPc = "start" /\ fetchPc' # "start"
             /\ fetchLog'[Len(fetchLog')] # "Error fetching PM2.5 data from OpenAQ"
             /\ Pm25Records(openaq_results') = <<>> )
           => /\ fetchPc' = "returned"
              /\ fetchLog'[Len(fetchLog')] = "No PM2.5 data fetched from OpenAQ"
              /\ cpcbCsv' = cpcbCsv
        /\ ( /\ fusionPc = "start" /\ fusionPc' # "start"
             /\ cpcbCsv.exists /\ rasterDir.exists
             /\ fusionPc' # "raised" /\ DropNA(df_attached') = <<>> )
           => /\ fusionPc' = "returned"
              /\ fusionLog'[Len(fusionLog')]
                   = "No complete data records after merging all sources"
              /\ mergedCsv' = mergedCsv
        /\ ( /\ predictPc = "start" /\ predictPc' # "start"
             /\ mergedCsv.exists /\ modelPkl.exists
             /\ DropNAFeatures(mergedCsv.rows) = <<>> )
           => /\ predictPc' = "returned"
              /\ predictLog' = <<"No complete data records available for prediction">>
              /\ mapPng' = mapPng
      ]_vars

\* The position of the process of a stage.
StagePc(stage) ==
    IF stage = "fetch" THEN fetchPc
    ELSE IF stage = "fusion" THEN fusionPc
    ELSE IF stage = "train" THEN trainPc
    ELSE predictPc

\* C14: the runner starts fetch, fusion, train and predict in that order, each
\* only once the stage before has terminated; a stage that exits with a
\* non-zero code makes the runner exit with code 1 without starting any later
\* stage, and the success message is printed only when all four exited with 0.
C14_StagesRunInOrder ==
    [][ /\ (fetchPc # "start" /\ fetchPc' = "start")
           => (runnerPc \in {"idle", "done", "exit1"} /\ runnerPc' = "fetch")
        /\ (fusionPc # "start" /\ fusionPc' = "start")
           => /\ runnerPc = "fetch" /\ runnerPc' = "fusion"
              /\ fetchPc = "returned"
        /\ (trainPc # "start" /\ trainPc' = "start")
           => /\ runnerPc = "fusion" /\ runnerPc' = "train"
              /\ fetchPc = "returned" /\ fusionPc = "returned"
        /\ (predictPc # "start" /\ predictPc' = "start" /\ runnerPc # "exit1")
           => /\ runnerPc = "train" /\ runnerPc' = "predict"
              /\ fetchPc = "returned" /\ fusionPc = "returned"
              /\ trainPc = "returned"
        /\ ( /\ runnerPc \in {"fetch", "fusion", "train", "predict"}
             /\ runnerPc' # runnerPc
             /\ StagePc(runnerPc) = "raised" )
           => /\ runnerPc' = "exit1"
              /\ UNCHANGED <<fetchPc, fusionPc, trainPc, predictPc>>
        /\ ( /\ runnerLog' # runnerLog
             /\ runnerLog'[Len(runnerLog')]
                  = "--- Backend pipeline completed successfully! ---" )
           => /\ runnerPc' = "done"
              /\ fetchPc = "returned" /\ fusionPc = "returned"
              /\ trainPc = "returned" /\ predictPc = "returned"
      ]_vars

\* A first run went through the four stages and drew the map; in the second
\* the fetch stage raised and the runner stopped there.
C14_Witness ==
    /\ pipelineRuns = 2 /\ runnerPc = "exit1"
    /\ fetchPc = "raised"
    /\ runnerLog[Len(runnerLog)] = "Script src/fetch_data.py failed with exit code 1"
    /\ fusionPc = "returned" /\ trainPc = "returned" /\ predictPc = "returned"
    /\ wroteMerged /\ trainWrote /\ predictWrote /\ mapPng.exists

-----------------------------------------------------------------------------
(* Claims about train_model.py *)

\* The complete rows of the fused table on disk.
CompleteRows == DropNA(mergedCsv.rows)

\* C11: with fewer than two complete rows in the fused table (or a split that
\* would leave a partition empty) the trainer prints a diagnostic, returns
\* without raising and writes neither the model nor the validation report.
C11_TooFewRowsReturnsWithDiagnostic ==
    (trainPc \in {"returned", "raised"} /\ mergedCsv.exists /\ Len(CompleteRows) < 2)
    => /\ trainPc = "returned"
       /\ trainLog \in {<<"No complete data records available for training">>,
                        <<"Not enough data to split into training and testing sets">>}
       /\ ~trainWrote
       /\ modelPkl = Absent /\ reportCsv = Absent

\* The rows the model was fitted on and the rows of the validation report are a
\* partition of the complete rows of the table (rows counted with their
\* multiplicity), the report holding a fifth of them, rounded up.
SplitIsPartition ==
    LET n == Len(CompleteRows)
        train == modelPkl.rows
        test == reportCsv.rows
    IN /\ trainPc = "returned" /\ trainWrote
       /\ modelPkl.exists /\ reportCsv.exists
       /\ 5 * Len(test) >= n /\ 5 * (Len(test) - 1) < n
       /\ Len(train) = n - Len(test)
       /\ n = 10 => (Len(train) = 8 /\ Len(test) = 2)
       /\ Range(train) \cup Range(test) = Range(CompleteRows)
       /\ \A r \in Range(CompleteRows) :
            Count(train, r) + Count(test, r) = Count(CompleteRows, r)

\* C13: for a fused table with n >= 2 complete rows the trainer splits the rows
\* into a train and a test part that are disjoint and cover the n rows, the test
\* part holding 20% of them rounded up (10 rows: 8 and 2), and a second run on
\* the same table gives the same two parts.
C13_SplitIsSeeded80_20 ==
    /\ []( (trainPc \in {"returned", "raised"} /\ mergedCsv.exists
               /\ Len(CompleteRows) >= 2)
           => SplitIsPartition )
    /\ [][ (trainPc = "start" /\ trainWrote /\ trainPc' # "start")
             => (modelPkl' = modelPkl /\ reportCsv' = reportCsv) ]_vars

\* The trainer has split a table of ten complete rows and an incomplete one.
C13_Witness ==
    /\ trainPc = "returned" /\ trainWrote
    /\ Len(mergedCsv.rows) = 11 /\ Len(CompleteRows) = 10
    /\ Len(modelPkl.rows) = 8 /\ Len(reportCsv.rows) = 2

====
